---- MODULE Spec2Model ----
(***************************************************************************)
(* State-machine model of the TopHat Playwright runner:                    *)
(*   - PlaywrightManager (common/lib.ts): openUrl, validateElementFromData, *)
(*     teardown, one action per awaited step;                              *)
(*   - main (main_script.ts) and the settings it reads.                    *)
(* Spec     : a client that calls the manager's methods one after another  *)
(*            (each call awaited), in any order.                           *)
(* SpecMain : the run of main().                                           *)
(***************************************************************************)
EXTENDS Integers, Sequences, FiniteSets, TLC

VARIABLES
    browser,    \* PlaywrightManager.browser : 0 (null) or a resource id
    context,    \* PlaywrightManager.context : 0 (null) or a resource id
    page,       \* PlaywrightManager.page    : 0 (null) or a resource id
    res,        \* the browser engine: every resource ever acquired, id = index
    pc,         \* position inside the method being executed, "idle" between calls
    tdFrom,     \* who awaits the running teardown(): "caller" or "openUrl"
    err,        \* the error caught by openUrl's catch block
    arg,        \* arguments of the running openUrl call
    nav,        \* openUrl: the requested url, page.url() and what the check logged
    val,        \* validateElementFromData: its locals and the result lines it logged
    ret,        \* what the last completed call gave its caller
    hist,       \* bookkeeping about calls (not program state)
    mainPc,     \* position inside main(), "none" when there is no main
    exitCode,   \* main's exitCode variable
    exited,     \* -1 while the process runs, else the status given to process.exit
    settings,   \* settings.ts as read by main
    validationResult    \* main's validationResult, "unset" until assigned

vars == <<browser, context, page, res, pc, tdFrom, err, arg, nav, val, ret, hist,
          mainPc, exitCode, exited, settings, validationResult>>

mgr == <<browser, context, page>>
mainVars == <<mainPc, exitCode, exited, settings, validationResult>>

(* ------------------------------ bounds -------------------------------- *)
MaxCalls == 3          \* calls the client of Spec makes on one manager
MaxElems == 2          \* entries under `elements` in a locator file

(* ----------------------------- constants ------------------------------ *)
NULL == 0

\* the three `case` labels of the switch in openUrl
Supported == {"chromium", "firefox", "webkit"}

\* browser kinds handed to openUrl (settings.BROWSER or a client's argument)
BrowserTypes == {"chromium", "Firefox", "webkit", "edge"}

\* String.prototype.toLowerCase on the kinds above
ToLowerCase(s) ==
    CASE s = "Firefox" -> "firefox"
      [] OTHER -> s

(* -------------------------------- URLs --------------------------------- *)
\* a URL is a string, written as the sequence of its pieces; "/" is the slash
\* settings.ts: BASEURL and URL
BASEURL == <<"https://www.">>
URL == BASEURL \o <<"tophat.com", "/">>

\* urls a client hands to openUrl
Urls == {URL, BASEURL \o <<"tophat.com">>}

\* what page.url() can be after a navigation that succeeded: the URL itself,
\* without its slash, after a redirect that drops "www.", and a deeper path
ResolvedUrls ==
    {URL,
     BASEURL \o <<"tophat.com">>,
     <<"https://", "tophat.com", "/">>,
     URL \o <<"pricing">>}

\* variant: the requested URL is used as it is
StripTrailingSlash_Keep(u) == u

\* url.replace(/\/$/, '')
StripTrailingSlash(u) ==
    IF Len(u) > 0 /\ u[Len(u)] = "/" THEN SubSeq(u, 1, Len(u) - 1) ELSE u

\* String.prototype.startsWith
StartsWith(str, prefix) ==
    /\ Len(prefix) <= Len(str)
    /\ SubSeq(str, 1, Len(prefix)) = prefix

\* the browserType parameter outside an openUrl call (its default)
NoArg == [browserType |-> "chromium"]

NoNav == [url |-> <<>>, currentUrl |-> <<>>, navigated |-> FALSE, msg |-> "none"]

(* ------------------------------- texts --------------------------------- *)
\* a text is the sequence of its characters
IsSpace(c) == c \in {" ", "\n"}

RECURSIVE TrimStart(_)
TrimStart(t) ==
    IF t # <<>> /\ IsSpace(Head(t)) THEN TrimStart(Tail(t)) ELSE t

RECURSIVE TrimEnd(_)
TrimEnd(t) ==
    IF t # <<>> /\ IsSpace(t[Len(t)]) THEN TrimEnd(SubSeq(t, 1, Len(t) - 1)) ELSE t

RECURSIVE Squeeze(_)
Squeeze(t) ==
    IF Len(t) < 2 THEN t
    ELSE IF IsSpace(t[1]) /\ IsSpace(t[2]) THEN Squeeze(Tail(t))
    ELSE <<Head(t)>> \o Squeeze(Tail(t))

\* variant: a normalisation that also collapses runs of inner whitespace
Trim_Squeeze(t) == Squeeze(TrimEnd(TrimStart(t)))

\* String.prototype.trim
Trim(t) == TrimEnd(TrimStart(t))

\* what element.textContent() resolves to: null, or a string
NullText == [isNull |-> TRUE, text |-> <<>>]
Text(t) == [isNull |-> FALSE, text |-> t]

\* lib.ts 129: (await element.textContent())?.trim() || ''
ActualText(raw) == IF raw.isNull THEN <<>> ELSE Trim(raw.text)

\* expected_text values of a locator file
ExpectedTexts == {<<"A", " ", "B">>}

\* what element.textContent() can resolve to
RawTexts ==
    {Text(<<"A">>),
     Text(<<"\n", " ", "A", " ", "B", " ">>),
     Text(<<"A", " ", " ", "B">>),
     NullText}

(* ---------------------------- locator files ---------------------------- *)
\* keys under `elements`
Names == {"b", "a", "1"}

\* keys that are array indices for a JavaScript object, and their values
IsIndex(k) == k \in {"1"}
IndexValue(k) == CASE k = "1" -> 1 [] OTHER -> 0

\* sequences of distinct names, in the order the file declares them
RECURSIVE Declarations(_)
Declarations(n) ==
    IF n = 0 THEN {<<>>}
    ELSE LET shorter == Declarations(n - 1)
         IN shorter \cup
            {Append(d, k) : d \in {x \in shorter : Len(x) = n - 1},
                            k \in Names} 

Distinct(d) == \A i, j \in 1..Len(d) : d[i] = d[j] => i = j

SelectSeqBy(d, keep) ==
    LET F[i \in 0..Len(d)] ==
            IF i = 0 THEN <<>>
            ELSE IF keep[d[i]] THEN Append(F[i - 1], d[i]) ELSE F[i - 1]
    IN F[Len(d)]

RECURSIVE SortIndices(_)
SortIndices(ks) ==
    IF ks = {} THEN <<>>
    ELSE LET m == CHOOSE k \in ks : \A o \in ks : IndexValue(k) <= IndexValue(o)
         IN <<m>> \o SortIndices(ks \ {m})

\* Object.entries (keys only): index keys in ascending numeric order first,
\* then the other keys in insertion order
ObjectEntries(d) ==
    SortIndices({d[i] : i \in {j \in 1..Len(d) : IsIndex(d[j])}})
        \o SelectSeqBy(d, [k \in Names |-> ~IsIndex(k)])

NoVal == [decl |-> <<>>, entries |-> <<>>, idx |-> 0, allPassed |-> TRUE,
          cur |-> [name |-> "none", expected |-> <<>>, dom |-> "none",
                   read |-> FALSE, raw |-> NullText, status |-> "none"],
          log |-> <<>>, fail |-> "none"]

(* ------------------------- the browser engine ------------------------- *)
\* a resource handed out by launch / newContext / newPage
NewRes(k, parent) ==
    [kind |-> k, parent |-> parent, call |-> hist.calls,
     released |-> FALSE, closes |-> 0]

Acquire(k, parent) == res' = Append(res, NewRes(k, parent))
NewId == Len(res) + 1

\* close() on resource id: succeeds and releases it, or rejects and leaves it
CloseRes(id, ok) ==
    res' = [res EXCEPT ![id].closes = @ + 1,
                       ![id].released = IF ok THEN TRUE ELSE @]

Ids == 1..Len(res)
Live(k) == {i \in Ids : res[i].kind = k /\ ~res[i].released}

(* --------------------------- call bookkeeping -------------------------- *)
NoRet == [m |-> "none", out |-> "none", err |-> "none"]

\* a caller starts method m: snapshot of the fields, counters reset
\*   calls   number of calls made on the manager so far
\*   cur     the method called last, prev the one completed before it
\*   entry   the fields when the call started
\*   ops     browser operations issued by the call
\*   tried   resources whose close() the running teardown has invoked
\*   tdBegun a teardown() has been invoked, closed: one has returned to a caller
\*   valAfterTd  validateElementFromData was started after a teardown began
Enter(m) ==
    hist' = [hist EXCEPT !.calls = @ + 1,
                         !.cur = m,
                         !.prev = ret.m,
                         !.entry = mgr,
                         !.ops = 0,
                         !.tried = {},
                         !.tdBegun = @ \/ (m = "teardown"),
                         !.valAfterTd = @ \/ (m = "validate" /\ hist.tdBegun)]

\* a browser operation (launch, newContext, newPage, navigation)
Op == hist' = [hist EXCEPT !.ops = @ + 1]

\* a close() invoked by teardown on resource id
Tried(id) == hist' = [hist EXCEPT !.ops = @ + 1, !.tried = @ \cup {id}]

Return(m, out, e) ==
    /\ ret' = [m |-> m, out |-> out, err |-> e]
    /\ pc' = "idle"

(* ------------------------------ openUrl -------------------------------- *)
BeginOpenUrl(url, bt) ==
    /\ pc = "idle"
    /\ pc' = "o_switch"
    /\ arg' = [browserType |-> bt]
    /\ nav' = [NoNav EXCEPT !.url = url]
    /\ val' = NoVal
    /\ Enter("openUrl")
    /\ UNCHANGED <<mgr, res, tdFrom, err, ret>>

\* variant: a browser still held by the manager is kept instead of launching
OpenLaunch_Reuse ==
    /\ pc = "o_switch"
    /\ ToLowerCase(arg.browserType) \in Supported
    /\ IF browser # NULL
       THEN UNCHANGED <<browser, res>>
       ELSE Acquire("browser", NULL) /\ browser' = NewId
    /\ pc' = "o_context"
    /\ Op
    /\ UNCHANGED <<context, page, tdFrom, err, arg, ret, mainVars, nav, val>>

\* lib.ts 38-50: a recognised kind, launch resolves
OpenLaunch ==
    /\ pc = "o_switch"
    /\ ToLowerCase(arg.browserType) \in Supported
    /\ Acquire("browser", NULL)
    /\ browser' = NewId
    /\ pc' = "o_context"
    /\ Op
    /\ UNCHANGED <<context, page, tdFrom, err, arg, ret, mainVars, nav, val>>

\* lib.ts 38-50: a recognised kind, launch rejects
OpenLaunchFail ==
    /\ pc = "o_switch"
    /\ ToLowerCase(arg.browserType) \in Supported
    /\ err' = "launch"
    /\ pc' = "o_catch"
    /\ Op
    /\ UNCHANGED <<mgr, res, tdFrom, arg, ret, mainVars, nav, val>>

\* variant: the default label falls back to launching chromium
OpenUnsupported_Launch ==
    /\ pc = "o_switch"
    /\ ToLowerCase(arg.browserType) \notin Supported
    /\ Acquire("browser", NULL)
    /\ browser' = NewId
    /\ pc' = "o_context"
    /\ Op
    /\ UNCHANGED <<context, page, tdFrom, err, arg, ret, mainVars, nav, val>>

\* lib.ts 51-52: default label
OpenUnsupported ==
    /\ pc = "o_switch"
    /\ ToLowerCase(arg.browserType) \notin Supported
    /\ err' = "unsupported"
    /\ pc' = "o_catch"
    /\ UNCHANGED <<mgr, res, tdFrom, arg, ret, hist, mainVars, nav, val>>

\* lib.ts 56-58
OpenNewContext ==
    /\ pc = "o_context"
    /\ Acquire("context", browser)
    /\ context' = NewId
    /\ pc' = "o_page"
    /\ Op
    /\ UNCHANGED <<browser, page, tdFrom, err, arg, ret, mainVars, nav, val>>

OpenNewContextFail ==
    /\ pc = "o_context"
    /\ err' = "context"
    /\ pc' = "o_catch"
    /\ Op
    /\ UNCHANGED <<mgr, res, tdFrom, arg, ret, mainVars, nav, val>>

\* lib.ts 59
OpenNewPage ==
    /\ pc = "o_page"
    /\ Acquire("page", context)
    /\ page' = NewId
    /\ pc' = "o_goto"
    /\ Op
    /\ UNCHANGED <<browser, context, tdFrom, err, arg, ret, mainVars, nav, val>>

OpenNewPageFail ==
    /\ pc = "o_page"
    /\ err' = "page"
    /\ pc' = "o_catch"
    /\ Op
    /\ UNCHANGED <<mgr, res, tdFrom, arg, ret, mainVars, nav, val>>

\* lib.ts 63-69: goto, waitForLoadState, waitForTimeout all resolve;
\* the page is then at some resolved URL
OpenNavigate ==
    /\ pc = "o_goto"
    /\ pc' = "o_url"
    /\ \E u \in ResolvedUrls :
          nav' = [nav EXCEPT !.currentUrl = u, !.navigated = TRUE]
    /\ Op
    /\ UNCHANGED <<mgr, res, tdFrom, err, arg, ret, mainVars, val>>

\* lib.ts 63-69: one of goto, waitForLoadState, waitForTimeout rejects
OpenNavigateFail ==
    /\ pc = "o_goto"
    /\ err' = "navigation"
    /\ pc' = "o_catch"
    /\ Op
    /\ UNCHANGED <<mgr, res, tdFrom, arg, ret, mainVars, nav, val>>

\* variant: a mismatch is thrown as an error
OpenUrlCheck_Strict ==
    /\ pc = "o_url"
    /\ IF ~StartsWith(nav.currentUrl, StripTrailingSlash(nav.url))
       THEN /\ nav' = [nav EXCEPT !.msg = "warning"]
            /\ err' = "urlmismatch"
            /\ pc' = "o_catch"
       ELSE /\ nav' = [nav EXCEPT !.msg = "success"]
            /\ pc' = "o_return"
            /\ UNCHANGED err
    /\ UNCHANGED <<mgr, res, tdFrom, arg, ret, hist, mainVars, val>>

\* lib.ts 72-77: the URL check logs a warning or a success line
OpenUrlCheck ==
    /\ pc = "o_url"
    /\ nav' = [nav EXCEPT !.msg =
                  IF ~StartsWith(nav.currentUrl, StripTrailingSlash(nav.url))
                  THEN "warning" ELSE "success"]
    /\ pc' = "o_return"
    /\ UNCHANGED <<mgr, res, tdFrom, err, arg, ret, hist, mainVars, val>>

\* lib.ts 79: return this.page
OpenReturn ==
    /\ pc = "o_return"
    /\ Return("openUrl", "ok", "none")
    /\ UNCHANGED <<mgr, res, tdFrom, err, arg, hist, mainVars, nav, val>>

\* lib.ts 81-83: catch block, await this.teardown()
OpenCatch ==
    /\ pc = "o_catch"
    /\ tdFrom' = "openUrl"
    /\ pc' = "t_page"
    /\ hist' = [hist EXCEPT !.tdBegun = TRUE, !.tried = {}]
    /\ UNCHANGED <<mgr, res, err, arg, ret, mainVars, nav, val>>

\* lib.ts 84: throw error
OpenRethrow ==
    /\ pc = "o_rethrow"
    /\ Return("openUrl", "throw", err)
    /\ UNCHANGED <<mgr, res, tdFrom, err, arg, hist, mainVars, nav, val>>

(* ------------------------------ teardown ------------------------------- *)
\* variant: the page block of teardown is missing, the context goes first
BeginTeardown_ContextFirst ==
    /\ pc = "idle"
    /\ pc' = "t_context"
    /\ tdFrom' = "caller"
    /\ nav' = NoNav
    /\ val' = NoVal
    /\ arg' = NoArg
    /\ Enter("teardown")
    /\ UNCHANGED <<mgr, res, err, ret>>

BeginTeardown ==
    /\ pc = "idle"
    /\ pc' = "t_page"
    /\ tdFrom' = "caller"
    /\ nav' = NoNav
    /\ val' = NoVal
    /\ arg' = NoArg
    /\ Enter("teardown")
    /\ UNCHANGED <<mgr, res, err, ret>>

\* variant: the page block never closes the page
TeardownPageSkip_Always ==
    /\ pc = "t_page"
    /\ pc' = "t_context"
    /\ UNCHANGED <<mgr, res, tdFrom, err, arg, ret, hist, mainVars, nav, val>>

\* lib.ts 168: this.page is null
TeardownPageSkip ==
    /\ pc = "t_page"
    /\ page = NULL
    /\ pc' = "t_context"
    /\ UNCHANGED <<mgr, res, tdFrom, err, arg, ret, hist, mainVars, nav, val>>

\* lib.ts 169-170
TeardownPageClose ==
    /\ pc = "t_page"
    /\ page # NULL
    /\ CloseRes(page, TRUE)
    /\ page' = NULL
    /\ pc' = "t_context"
    /\ Tried(page)
    /\ UNCHANGED <<browser, context, tdFrom, err, arg, ret, mainVars, nav, val>>

\* lib.ts 169: page.close() rejects, control goes to the catch at 185
TeardownPageCloseFail ==
    /\ pc = "t_page"
    /\ page # NULL
    /\ CloseRes(page, FALSE)
    /\ pc' = "t_catch"
    /\ Tried(page)
    /\ UNCHANGED <<mgr, tdFrom, err, arg, ret, mainVars, nav, val>>

\* lib.ts 173
TeardownContextSkip ==
    /\ pc = "t_context"
    /\ context = NULL
    /\ pc' = "t_browser"
    /\ UNCHANGED <<mgr, res, tdFrom, err, arg, ret, hist, mainVars, nav, val>>

\* lib.ts 174-175
TeardownContextClose ==
    /\ pc = "t_context"
    /\ context # NULL
    /\ CloseRes(context, TRUE)
    /\ context' = NULL
    /\ pc' = "t_browser"
    /\ Tried(context)
    /\ UNCHANGED <<browser, page, tdFrom, err, arg, ret, mainVars, nav, val>>

TeardownContextCloseFail ==
    /\ pc = "t_context"
    /\ context # NULL
    /\ CloseRes(context, FALSE)
    /\ pc' = "t_catch"
    /\ Tried(context)
    /\ UNCHANGED <<mgr, tdFrom, err, arg, ret, mainVars, nav, val>>

\* lib.ts 178
TeardownBrowserSkip ==
    /\ pc = "t_browser"
    /\ browser = NULL
    /\ pc' = "t_end"
    /\ UNCHANGED <<mgr, res, tdFrom, err, arg, ret, hist, mainVars, nav, val>>

\* lib.ts 179-180
TeardownBrowserClose ==
    /\ pc = "t_browser"
    /\ browser # NULL
    /\ CloseRes(browser, TRUE)
    /\ browser' = NULL
    /\ pc' = "t_end"
    /\ Tried(browser)
    /\ UNCHANGED <<context, page, tdFrom, err, arg, ret, mainVars, nav, val>>

TeardownBrowserCloseFail ==
    /\ pc = "t_browser"
    /\ browser # NULL
    /\ CloseRes(browser, FALSE)
    /\ pc' = "t_catch"
    /\ Tried(browser)
    /\ UNCHANGED <<mgr, tdFrom, err, arg, ret, mainVars, nav, val>>

\* the awaiter of teardown() resumes: openUrl's catch block or the caller
TeardownResume ==
    IF tdFrom = "openUrl"
    THEN /\ pc' = "o_rethrow"
         /\ UNCHANGED <<ret, hist>>
    ELSE /\ Return("teardown", "ok", "none")
         /\ hist' = [hist EXCEPT !.closed = TRUE]

\* lib.ts 183: console.log, then the promise resolves
TeardownEnd ==
    /\ pc = "t_end"
    /\ TeardownResume
    /\ UNCHANGED <<mgr, res, tdFrom, err, arg, mainVars, nav, val>>

\* variant: the catch block logs and throws the error again
TeardownCatch_Rethrow ==
    /\ pc = "t_catch"
    /\ IF tdFrom = "openUrl"
       THEN Return("openUrl", "throw", "teardown")
       ELSE Return("teardown", "throw", "teardown")
    /\ UNCHANGED <<mgr, res, tdFrom, err, arg, hist, mainVars, nav, val>>

\* lib.ts 185-187: console.error, the error is dropped, the promise resolves
TeardownCatch ==
    /\ pc = "t_catch"
    /\ TeardownResume
    /\ UNCHANGED <<mgr, res, tdFrom, err, arg, mainVars, nav, val>>

(* ------------------------ validateElementFromData ---------------------- *)
BeginValidate ==
    /\ pc = "idle"
    /\ pc' = "v_guard"
    /\ nav' = NoNav
    /\ val' = NoVal
    /\ arg' = NoArg
    /\ Enter("validate")
    /\ UNCHANGED <<mgr, res, tdFrom, err, ret>>

\* variant: the page field is not checked
ValidateGuard_NoCheck ==
    /\ pc = "v_guard"
    /\ pc' = "v_load"
    /\ UNCHANGED <<mgr, res, tdFrom, err, arg, ret, hist, mainVars, nav, val>>

\* lib.ts 92-94: throws unless a page is held
ValidateGuard ==
    /\ pc = "v_guard"
    /\ IF page = NULL
       THEN Return("validate", "throw", "nopage")
       ELSE pc' = "v_load" /\ UNCHANGED ret
    /\ UNCHANGED <<mgr, res, tdFrom, err, arg, hist, mainVars, nav, val>>

\* lib.ts 98-108: the file is read and has an `elements` mapping
ValidateLoad ==
    /\ pc = "v_load"
    /\ \E d \in Declarations(MaxElems) :
          /\ Distinct(d)
          /\ val' = [NoVal EXCEPT !.decl = d, !.entries = ObjectEntries(d),
                                  !.idx = 1]
    /\ pc' = "v_loop"
    /\ UNCHANGED <<mgr, res, tdFrom, err, arg, ret, hist, mainVars, nav>>

\* lib.ts 98-103: readFileSync or yaml.load throws, or there is no `elements`
ValidateLoadFail ==
    /\ pc = "v_load"
    /\ \E f \in {"read", "nokey"} : val' = [NoVal EXCEPT !.fail = f]
    /\ pc' = "v_catch"
    /\ UNCHANGED <<mgr, res, tdFrom, err, arg, ret, hist, mainVars, nav>>

\* variant: allPassed is overwritten by the latest result
Classified_LastWins(status, c) ==
    val' = [val EXCEPT !.cur = [c EXCEPT !.status = status],
                       !.log = Append(@, [name |-> c.name,
                                          matched |-> status = "Matched"]),
                       !.allPassed = (status = "Matched"),
                       !.idx = @ + 1]

\* the loop body ends for the current entry with one result line:
\* SUCCESS (Matched), not visible (NotVisible), Text mismatch (TextMismatch)
\* or Failed to validate (ResolutionError).  The log keeps, per line, the
\* entry and whether it is a SUCCESS line; cur.status is the line just written.
Classified(status, c) ==
    val' = [val EXCEPT !.cur = [c EXCEPT !.status = status],
                       !.log = Append(@, [name |-> c.name,
                                          matched |-> status = "Matched"]),
                       !.allPassed = IF status = "Matched" THEN @ ELSE FALSE,
                       !.idx = @ + 1]

\* lib.ts 110-119: next entry of Object.entries, its locator is built
ValidateIter ==
    /\ pc = "v_loop"
    /\ val.idx <= Len(val.entries)
    /\ \E e \in ExpectedTexts :
          val' = [val EXCEPT !.cur = [name |-> val.entries[val.idx],
                                      expected |-> e,
                                      dom |-> "unknown", read |-> FALSE,
                                      raw |-> NullText, status |-> "none"]]
    /\ pc' = "v_visible"
    /\ UNCHANGED <<mgr, res, tdFrom, err, arg, ret, hist, mainVars, nav>>

\* variant: `break` instead of `continue` after a not-visible element
ValidateNotVisible_Break ==
    /\ pc = "v_visible"
    /\ \E d \in {"absent", "hidden"} :
          Classified("NotVisible", [val.cur EXCEPT !.dom = d])
    /\ pc' = "v_catch"
    /\ Op
    /\ UNCHANGED <<mgr, res, tdFrom, err, arg, ret, mainVars, nav>>

\* lib.ts 122-126: isVisible() resolves false, for a locator that matches
\* nothing as for a hidden element
ValidateNotVisible ==
    /\ pc = "v_visible"
    /\ \E d \in {"absent", "hidden"} :
          Classified("NotVisible", [val.cur EXCEPT !.dom = d])
    /\ pc' = "v_loop"
    /\ Op
    /\ UNCHANGED <<mgr, res, tdFrom, err, arg, ret, mainVars, nav>>

\* lib.ts 122: isVisible() resolves true
ValidateVisible ==
    /\ pc = "v_visible"
    /\ val' = [val EXCEPT !.cur.dom = "visible"]
    /\ pc' = "v_text"
    /\ Op
    /\ UNCHANGED <<mgr, res, tdFrom, err, arg, ret, mainVars, nav>>

\* lib.ts 129-139: the text is read, trimmed and compared
ValidateText ==
    /\ pc = "v_text"
    /\ \E raw \in RawTexts :
          LET c == [val.cur EXCEPT !.raw = raw, !.read = TRUE]
          IN IF ActualText(raw) = val.cur.expected
             THEN Classified("Matched", c)
             ELSE Classified("TextMismatch", c)
    /\ pc' = "v_loop"
    /\ Op
    /\ UNCHANGED <<mgr, res, tdFrom, err, arg, ret, mainVars, nav>>

\* variant: no inner try/catch, the error reaches the outer catch
ValidateThrow_Escapes ==
    /\ pc \in {"v_visible", "v_text"}
    /\ val' = [val EXCEPT !.cur.dom = "throws"]
    /\ pc' = "v_catch"
    /\ Op
    /\ UNCHANGED <<mgr, res, tdFrom, err, arg, ret, mainVars, nav>>

\* lib.ts 141-144: locator(), isVisible() or textContent() throws
ValidateThrow ==
    /\ pc \in {"v_visible", "v_text"}
    /\ Classified("ResolutionError", [val.cur EXCEPT !.dom = "throws"])
    /\ pc' = "v_loop"
    /\ Op
    /\ UNCHANGED <<mgr, res, tdFrom, err, arg, ret, mainVars, nav>>

\* lib.ts 147-155: the loop is over, allPassed is returned
ValidateDone ==
    /\ pc = "v_loop"
    /\ val.idx > Len(val.entries)
    /\ Return("validate", IF val.allPassed THEN "true" ELSE "false", "none")
    /\ UNCHANGED <<mgr, res, tdFrom, err, arg, hist, mainVars, nav, val>>

\* variant: the outer catch also drops the page
ValidateCatch_DropsPage ==
    /\ pc = "v_catch"
    /\ Return("validate", "false", "none")
    /\ page' = NULL
    /\ UNCHANGED <<browser, context, res, tdFrom, err, arg, hist, mainVars, nav, val>>

\* lib.ts 157-160: the outer catch returns false
ValidateCatch ==
    /\ pc = "v_catch"
    /\ Return("validate", "false", "none")
    /\ UNCHANGED <<mgr, res, tdFrom, err, arg, hist, mainVars, nav, val>>

(* ----------------------- a client of the manager ----------------------- *)
CallOpenUrl ==
    /\ mainPc = "none"
    /\ hist.calls < MaxCalls
    /\ \E u \in Urls, bt \in BrowserTypes : BeginOpenUrl(u, bt)
    /\ UNCHANGED mainVars

CallValidate ==
    /\ mainPc = "none"
    /\ hist.calls < MaxCalls
    /\ BeginValidate
    /\ UNCHANGED mainVars

CallTeardown ==
    /\ mainPc = "none"
    /\ hist.calls < MaxCalls
    /\ BeginTeardown
    /\ UNCHANGED mainVars

(* -------------------------------- main --------------------------------- *)
\* main_script.ts 24
MainOpenUrl ==
    /\ mainPc = "start"
    /\ BeginOpenUrl(settings.URL, settings.BROWSER)
    /\ mainPc' = "opening"
    /\ UNCHANGED <<exitCode, exited, settings, validationResult>>

\* main_script.ts 29: openUrl resolved
MainValidate ==
    /\ mainPc = "opening"
    /\ ret.m = "openUrl" /\ ret.out = "ok"
    /\ BeginValidate
    /\ mainPc' = "validating"
    /\ UNCHANGED <<exitCode, exited, settings, validationResult>>

\* variant: process.exit is called inside the try block
MainResult_Exit ==
    /\ mainPc = "validating"
    /\ pc = "idle"
    /\ ret.m = "validate" /\ ret.out \in {"true", "false"}
    /\ validationResult' = ret.out
    /\ exitCode' = IF validationResult' = "true" THEN 0 ELSE 1
    /\ exited' = exitCode'
    /\ mainPc' = "exit"
    /\ UNCHANGED <<mgr, res, pc, tdFrom, err, arg, nav, val, ret, hist, settings>>

\* main_script.ts 34-40
MainResult ==
    /\ mainPc = "validating"
    /\ pc = "idle"
    /\ ret.m = "validate" /\ ret.out \in {"true", "false"}
    /\ validationResult' = ret.out
    /\ exitCode' = IF validationResult' = "true" THEN 0 ELSE 1
    /\ mainPc' = "finally"
    /\ UNCHANGED <<mgr, res, pc, tdFrom, err, arg, nav, val, ret, hist, exited, settings>>

\* variant: the catch block does not set exitCode
MainCatch_NoExitCode ==
    /\ mainPc \in {"opening", "validating"}
    /\ pc = "idle"
    /\ ret.out = "throw"
    /\ mainPc' = "finally"
    /\ UNCHANGED <<mgr, res, pc, tdFrom, err, arg, nav, val, ret, hist, exitCode, exited,
                   settings, validationResult>>

\* main_script.ts 43-46: openUrl or validateElementFromData rejected
MainCatch ==
    /\ mainPc \in {"opening", "validating"}
    /\ pc = "idle"
    /\ ret.out = "throw"
    /\ exitCode' = 1
    /\ mainPc' = "finally"
    /\ UNCHANGED <<mgr, res, pc, tdFrom, err, arg, nav, val, ret, hist, exited, settings,
                   validationResult>>

\* main_script.ts 48-51
MainFinally ==
    /\ mainPc = "finally"
    /\ BeginTeardown
    /\ mainPc' = "cleanup"
    /\ UNCHANGED <<exitCode, exited, settings, validationResult>>

\* main_script.ts 54-55, and 60-63 should main reject
MainExit ==
    /\ mainPc = "cleanup"
    /\ pc = "idle"
    /\ ret.m = "teardown"
    /\ exited' = IF ret.out = "ok" THEN exitCode ELSE 1
    /\ mainPc' = "exit"
    /\ UNCHANGED <<mgr, res, pc, tdFrom, err, arg, nav, val, ret, hist, exitCode, settings, validationResult>>

(* --------------------------- specifications ---------------------------- *)
InitManager ==
    /\ browser = NULL
    /\ context = NULL
    /\ page = NULL
    /\ res = <<>>
    /\ pc = "idle"
    /\ tdFrom = "caller"
    /\ err = "none"
    /\ arg = NoArg
    /\ nav = NoNav
    /\ val = NoVal
    /\ ret = NoRet
    /\ hist = [calls |-> 0, cur |-> "none", prev |-> "none",
               entry |-> <<NULL, NULL, NULL>>, ops |-> 0, tried |-> {},
               tdBegun |-> FALSE, closed |-> FALSE, valAfterTd |-> FALSE]

Init ==
    /\ InitManager
    /\ mainPc = "none"
    /\ exitCode = 0
    /\ exited = -1
    /\ settings = [URL |-> URL, BROWSER |-> "chromium"]
    /\ validationResult = "unset"

InitMain ==
    /\ InitManager
    /\ mainPc = "start"
    /\ exitCode = 0
    /\ exited = -1
    /\ settings \in [URL : {URL}, BROWSER : BrowserTypes]
    /\ validationResult = "unset"

Steps ==
    \/ OpenLaunch \/ OpenLaunchFail \/ OpenUnsupported
    \/ OpenNewContext \/ OpenNewContextFail
    \/ OpenNewPage \/ OpenNewPageFail
    \/ OpenNavigate \/ OpenNavigateFail
    \/ OpenUrlCheck \/ OpenReturn \/ OpenCatch \/ OpenRethrow
    \/ TeardownPageSkip \/ TeardownPageClose \/ TeardownPageCloseFail
    \/ TeardownContextSkip \/ TeardownContextClose \/ TeardownContextCloseFail
    \/ TeardownBrowserSkip \/ TeardownBrowserClose \/ TeardownBrowserCloseFail
    \/ TeardownEnd \/ TeardownCatch
    \/ ValidateGuard \/ ValidateLoad \/ ValidateLoadFail
    \/ ValidateIter \/ ValidateNotVisible \/ ValidateVisible
    \/ ValidateText \/ ValidateThrow \/ ValidateDone \/ ValidateCatch

Next ==
    \/ Steps
    \/ CallOpenUrl \/ CallValidate \/ CallTeardown

NextMain ==
    \/ Steps
    \/ MainOpenUrl \/ MainValidate \/ MainResult \/ MainCatch
    \/ MainFinally \/ MainExit

Spec == Init /\ [][Next]_vars

SpecMain == InitMain /\ [][NextMain]_vars

TypeOK ==
    /\ browser \in 0..Len(res) /\ context \in 0..Len(res) /\ page \in 0..Len(res)
    /\ exited \in {-1, 0, 1}

(* ============================== properties ============================= *)
\* a call of method m has returned to its caller
Returned(m) == pc = "idle" /\ ret.m = m /\ hist.cur = m

\* the fields that hold a resource
Held == {browser, context, page} \ {NULL}

\* resources acquired by the call in progress (or just completed)
AcquiredByCall == {i \in Ids : res[i].call = hist.calls}

\* C1: best-effort teardown: when teardown gives up in its catch block after a
\* failed close, close() has nevertheless been invoked on every resource the
\* manager holds (a failed page close does not skip the context and browser
\* closes, a failed context close does not skip the browser close).
C1_BestEffort ==
    pc = "t_catch" => Held \subseteq hist.tried

\* C2: whenever a call to teardown() has returned, page, context and browser
\* are all null.
C2_AllNullAfterTeardown ==
    Returned("teardown") => (page = NULL /\ context = NULL /\ browser = NULL)

\* C3: teardown() never raises: a teardown() called directly returns normally,
\* and an openUrl that ran teardown in its catch block never throws a teardown
\* error.
C3_TeardownNeverRaises ==
    /\ ret.m = "teardown" => ret.out = "ok"
    /\ ret.m = "openUrl" => ret.err # "teardown"

\* C3 witness: a teardown() returned normally although one of its closes failed
C3_Witness ==
    /\ Returned("teardown")
    /\ ret.out = "ok"
    /\ \E i \in hist.tried : ~res[i].released

\* C4: teardown() is idempotent: called with no session open it performs no
\* browser operation and changes no field; a teardown() that directly follows
\* another teardown() invokes no close (no browser operation at all), acquires
\* nothing and returns normally.
C4_Idempotent ==
    Returned("teardown") =>
        /\ hist.entry = <<NULL, NULL, NULL>> => (hist.ops = 0 /\ mgr = hist.entry)
        /\ hist.prev = "teardown" =>
              (hist.ops = 0 /\ AcquiredByCall = {} /\ ret.out = "ok")

\* close() is invoked in this step on resource i
CloseInvoked(i) == res'[i].closes > res[i].closes

Children(i) == {j \in Ids : res[j].parent = i}

\* C5: teardown ordering in a run of main: whenever close() is invoked on a
\* context, close() has already been invoked on its page, and whenever close()
\* is invoked on a browser, close() has already been invoked on its context;
\* a released context never has an unreleased page, nor a released browser an
\* unreleased context.
C5_Order ==
    /\ [](\A i \in Ids : res[i].released =>
             \A j \in Children(i) : res[j].released)
    /\ [][\A i \in Ids : CloseInvoked(i) =>
             \A j \in Children(i) : res[j].closes > 0]_vars

\* C5 witness: page, context and browser of one session were all released
C5_Witness ==
    \E b \in Ids : /\ res[b].kind = "browser" /\ res[b].released
                   /\ \E c \in Children(b) : /\ res[c].released
                                              /\ \E p \in Children(c) : res[p].released

\* C6: every exit of main passes through teardown(): when the process has
\* exited, main's teardown() call has been made and has returned, and no
\* validation was started after a teardown had begun.
C6_TeardownReached ==
    /\ exited # -1 => (hist.tdBegun /\ ret.m = "teardown" /\ hist.closed)
    /\ ~hist.valAfterTd

\* C6 witness: main exited on the path where openUrl failed (no validation)
C6_Witness ==
    exited = 1 /\ hist.calls = 2 /\ err # "none"

\* C7: when openUrl throws to its caller, teardown has run, every resource that
\* call acquired has been released (one whose own close() rejected excepted:
\* no teardown can release that one), and the error is the original failure.
C7_OpenFailureReleasesAll ==
    (Returned("openUrl") /\ ret.out = "throw") =>
        /\ hist.tdBegun
        /\ \A i \in AcquiredByCall : res[i].released \/ res[i].closes > 0
        /\ ret.err = err /\ ret.err # "teardown"

\* C8: openUrl with a browser kind outside the supported set (as the switch
\* compares it, lower-cased) acquires no browser, context or page during that
\* call, and the call fails.
C8_UnsupportedAcquiresNothing ==
    (hist.cur = "openUrl" /\ ToLowerCase(arg.browserType) \notin Supported) =>
        /\ AcquiredByCall = {}
        /\ pc = "idle" => (ret.m = "openUrl" /\ ret.out = "throw"
                           /\ ret.err = "unsupported")

\* C8 witness: an openUrl("edge") call has failed
C8_Witness ==
    /\ Returned("openUrl")
    /\ arg.browserType = "edge"
    /\ ret.out = "throw"

\* C9: at most one browser launched by the manager is live and unreleased at
\* any time.
C9_OneLiveBrowser ==
    Cardinality(Live("browser")) <= 1

\* a session of the manager has been opened and released down to its browser
SessionReleased == \E i \in Ids : res[i].kind = "browser" /\ res[i].released

\* C10 (as claimed): once a teardown() has returned on a manager and released
\* its session, no later openUrl on that manager produces an open session.
C10_ClosedIsTerminal ==
    (hist.closed /\ SessionReleased) => ~(Returned("openUrl") /\ ret.out = "ok")

\* C10 (amended): an openUrl that succeeds after a teardown() has returned
\* yields an open session made only of a browser, context and page acquired by
\* that very call, none of them released.
C10_ReopenIsFresh ==
    (hist.closed /\ Returned("openUrl") /\ ret.out = "ok") =>
        /\ NULL \notin {browser, context, page}
        /\ Held \subseteq AcquiredByCall
        /\ \A i \in Held : ~res[i].released

\* C10 witness: a session opened on a manager whose teardown() had returned
C10_Witness ==
    /\ hist.closed /\ SessionReleased
    /\ Returned("openUrl") /\ ret.out = "ok"
    /\ page # NULL

\* validateElementFromData has returned a verdict for a file it could load
Evaluated ==
    /\ Returned("validate")
    /\ ret.out \in {"true", "false"}
    /\ val.fail = "none"

LogNames == [i \in 1..Len(val.log) |-> val.log[i].name]

\* C11: the verdict is true exactly when every result line is a SUCCESS
\* (Matched) line; an empty `elements` mapping gives true.
C11_Aggregate ==
    Evaluated =>
        /\ (ret.out = "true") <=> (\A i \in 1..Len(val.log) : val.log[i].matched)
        /\ val.decl = <<>> => ret.out = "true"

\* C11 witness: a failed first assertion followed by a Matched one gave false
C11_Witness ==
    /\ Evaluated
    /\ Len(val.log) = 2
    /\ ~val.log[1].matched /\ val.log[2].matched
    /\ ret.out = "false"

\* C12: the evaluator writes exactly one result per declared assertion, in the
\* order the file declares them.
C12_InputOrder ==
    Evaluated => LogNames = val.decl

\* C13: a locator query that throws is recorded as a failure of that assertion
\* only: the error does not leave validateElementFromData and the assertions
\* after it are still evaluated, each exactly once.
C13_Isolation ==
    /\ [](/\ (hist.cur = "validate" /\ val.cur.dom = "throws") =>
                /\ val.cur.status = "ResolutionError"
                /\ ~val.allPassed
                /\ val.log # <<>> /\ ~val.log[Len(val.log)].matched
                /\ pc \in {"v_loop", "idle"}
          /\ (Returned("validate") /\ hist.entry[3] # NULL) => ret.out # "throw"
          /\ Evaluated =>
                (Len(val.log) = Len(val.entries)
                 /\ \A k \in Names :
                      Cardinality({i \in 1..Len(val.log) : val.log[i].name = k})
                        = Cardinality({i \in 1..Len(val.decl) : val.decl[i] = k})))
    /\ [][(pc = "v_loop" /\ val.cur.dom = "throws" /\ val.idx <= Len(val.entries))
            => (pc' = "v_visible" /\ val'.cur.name = val.entries[val.idx])]_vars

\* C13 witness: the first of two assertions threw and was recorded, and the
\* loop stands before the second
C13_Witness ==
    /\ pc = "v_loop"
    /\ val.cur.dom = "throws"
    /\ Len(val.log) = 1
    /\ val.idx = 2 /\ Len(val.entries) = 2

\* C14 (as claimed): a locator that matches no element gives the
\* ResolutionError line.
C14_AbsentIsResolutionError ==
    (pc = "v_loop" /\ val.cur.dom = "absent") => val.cur.status = "ResolutionError"

\* C14 (amended): a locator that matches no element gives the NotVisible line
\* (as a hidden element does) without its text being read, the verdict is
\* false, and the assertions after it are still evaluated.
C14_AbsentIsNotVisible ==
    /\ [](val.cur.dom = "absent" =>
             /\ val.cur.status = "NotVisible"
             /\ ~val.cur.read
             /\ ~val.allPassed
             /\ Returned("validate") => (ret.out = "false"
                                         /\ Len(val.log) = Len(val.entries)))
    /\ [][(pc = "v_loop" /\ val.cur.dom = "absent" /\ val.idx <= Len(val.entries))
            => (pc' = "v_visible" /\ val'.cur.name = val.entries[val.idx])]_vars

\* C14 witness: the first of two assertions matched nothing and the second has
\* been evaluated
C14_Witness ==
    /\ Evaluated
    /\ Len(val.log) = 2
    /\ ~val.log[1].matched
    /\ val.cur.dom = "absent"

\* a text with only its leading and trailing whitespace removed
OuterTrimmed(t) ==
    LET ns == {i \in 1..Len(t) : ~IsSpace(t[i])}
    IN IF ns = {} THEN <<>>
       ELSE SubSeq(t, CHOOSE i \in ns : \A j \in ns : i <= j,
                      CHOOSE i \in ns : \A j \in ns : i >= j)

\* C15: an element that is not visible gives NotVisible and its text is not
\* read; a visible element gives Matched exactly when its text without
\* leading and trailing whitespace equals expected_text, else TextMismatch.
C15_Classification ==
    (hist.cur = "validate" /\ val.cur.status # "none") =>
        /\ val.cur.dom \in {"absent", "hidden"} =>
              (val.cur.status = "NotVisible" /\ ~val.cur.read)
        /\ val.cur.read =>
              /\ val.cur.dom = "visible"
              /\ val.cur.status \in {"Matched", "TextMismatch"}
              /\ (val.cur.status = "Matched") <=>
                    (IF val.cur.raw.isNull THEN <<>>
                     ELSE OuterTrimmed(val.cur.raw.text)) = val.cur.expected

\* C15 witness: a text that differs from expected_text by an inner double
\* space only was classified TextMismatch
C15_Witness ==
    /\ pc = "v_loop"
    /\ val.cur.raw = Text(<<"A", " ", " ", "B">>)
    /\ val.cur.expected = <<"A", " ", "B">>
    /\ val.cur.status = "TextMismatch"

\* C16: main exits with 0 exactly when openUrl resolved and the verdict was
\* true, and with 1 when the verdict was false or a call rejected.
C16_ExitStatus ==
    /\ (mainPc = "finally" /\ ret.m = "validate") => validationResult = ret.out
    /\ (mainPc = "finally" /\ ret.out = "throw") =>
          (validationResult = "unset" /\ exitCode = 1)
    /\ validationResult # "unset" => \E i \in Ids : res[i].kind = "page"
    /\ exited # -1 =>
          /\ exited \in {0, 1}
          /\ (exited = 0) <=> (validationResult = "true")

\* C16 witness: main exited with status 0
C16_Witness ==
    exited = 0 /\ validationResult = "true"

\* C17: once the navigation has succeeded, openUrl returns the page with the
\* session open whatever page.url() is: no teardown, no error.
C17_MismatchNonFatal ==
    (hist.cur = "openUrl" /\ nav.navigated) =>
        /\ pc \in {"o_url", "o_return", "idle"}
        /\ hist.tried = {}
        /\ NULL \notin {browser, context, page}
        /\ \A i \in Held : ~res[i].released
        /\ pc = "idle" => (ret.m = "openUrl" /\ ret.out = "ok")

\* C17 witness: openUrl returned the page after logging the mismatch warning
C17_Witness ==
    /\ Returned("openUrl")
    /\ ret.out = "ok"
    /\ nav.msg = "warning"
    /\ page # NULL

\* C18: page is non-null only if context is, context only if browser is.
C18_Nesting ==
    /\ page # NULL => context # NULL
    /\ context # NULL => browser # NULL

\* C18 witness: a teardown whose context close failed left context and browser
C18_Witness ==
    /\ Returned("teardown")
    /\ page = NULL /\ context # NULL /\ browser # NULL

\* C19: when main exits, close() has been invoked exactly once on every page,
\* context and browser acquired during the run.
C19_ExactlyOnce ==
    exited # -1 => \A i \in Ids : res[i].closes = 1

\* C20: when main exits, every browser, context and page acquired during the
\* run has been released (one whose own close() rejected excepted).
C20_NoLeakAtExit ==
    exited # -1 => \A i \in Ids : res[i].released \/ res[i].closes > 0

\* C21: validateElementFromData entered with no page held throws, without a
\* locator query and without a verdict.
C21_RequiresPage ==
    (hist.cur = "validate" /\ hist.entry[3] = NULL) =>
        /\ pc \in {"v_guard", "idle"}
        /\ hist.ops = 0
        /\ val = NoVal
        /\ pc = "idle" => (ret.m = "validate" /\ ret.out = "throw"
                           /\ ret.err = "nopage")

\* C21 witness: validateElementFromData threw after a teardown that released
\* the page of an earlier openUrl
C21_Witness ==
    /\ Returned("validate")
    /\ ret.out = "throw"
    /\ hist.closed
    /\ \E i \in Ids : res[i].kind = "page" /\ res[i].released

\* C22: no step of validateElementFromData changes the browser, context or
\* page field, acquires a resource or releases one.
C22_ReadOnly ==
    [][hist'.cur = "validate" => (mgr' = mgr /\ res' = res)]_vars

\* C22 witness: validateElementFromData returned after a query threw, with
\* the session still open
C22_Witness ==
    /\ Returned("validate")
    /\ val.cur.dom = "throws"
    /\ NULL \notin {browser, context, page}
    /\ \A i \in Held : ~res[i].released

\* two URLs that are equal up to one trailing slash
SameUpToSlash(a, b) ==
    \/ a = b
    \/ a = b \o <<"/">>
    \/ b = a \o <<"/">>

\* the resolved URL begins with the requested URL less its trailing slash
Extends(cur, req) ==
    \E k \in 0..Len(cur) :
        LET p == SubSeq(cur, 1, k)
        IN p = req \/ p \o <<"/">> = req

\* the URL check of the returned or returning openUrl has logged its line
UrlChecked ==
    hist.cur = "openUrl" /\ nav.navigated /\ pc \in {"o_return", "idle"}

\* C23 (as claimed): the warning is logged exactly when the two URLs differ by
\* more than a trailing slash, the success line exactly when they do not.
C23_WarnsUnlessSameUpToSlash ==
    UrlChecked =>
        /\ (nav.msg = "warning") <=> ~SameUpToSlash(nav.currentUrl, nav.url)
        /\ (nav.msg = "success") <=> SameUpToSlash(nav.currentUrl, nav.url)

\* C23 (amended): the warning is logged exactly when the resolved URL does not
\* begin with the requested URL less its trailing slash, the success line
\* otherwise; URLs equal up to a trailing slash always get the success line.
C23_WarnsUnlessPrefix ==
    UrlChecked =>
        /\ (nav.msg = "warning") <=> ~Extends(nav.currentUrl, nav.url)
        /\ (nav.msg = "success") <=> Extends(nav.currentUrl, nav.url)
        /\ SameUpToSlash(nav.currentUrl, nav.url) => nav.msg = "success"

\* C23 witness: a resolved URL one path segment below the requested URL got
\* the success line
C23_Witness ==
    /\ Returned("openUrl")
    /\ nav.url = URL
    /\ nav.currentUrl = URL \o <<"pricing">>
    /\ nav.msg = "success"

\* C24: a file without the `elements` key makes validateElementFromData throw
\* to its caller instead of returning false.
C24_MissingKeyIsRaised ==
    (Returned("validate") /\ val.fail = "nokey") => ret.out = "throw"


====
